---------------------------- MODULE Spec2Model ----------------------------
(***************************************************************************)
(* A model of biothings/www/api/es.py: the ESQuery executor (construction, *)
(* get_biothing, exists, mget_biothings, query, scroll) over a backend     *)
(* whose answers are chosen nondeterministically, and the pure             *)
(* helpers parse_sort_option, ESQuery._cleaned_scopes and                  *)
(* ESQueryBuilder.generate_query.                                          *)
(*                                                                         *)
(* Python values are modelled as follows.  A str whose characters matter   *)
(* is a sequence of one-character strings; a dict is a function from keys  *)
(* to values (a record); a list is a sequence.  Key order of a dict is not *)
(* represented, so the key sorting of _traverse_biothingdoc is not either. *)
(* What an operation gives back is [kind |-> "return", type, val] or       *)
(* [kind |-> "raise", exc].                                                *)
(***************************************************************************)
EXTENDS Integers, Sequences, FiniteSets, TLC

VARIABLES
    phase,              \* "new", "ready" (constructed), "failed" (__init__ raised), "pure"
    n_shards,           \* the index setting number_of_shards held by the backend
    _total_scroll_size, \* biothing_settings.scroll_size
    _allowed_options,   \* biothing_settings.allowed_options
    _scroll_size,       \* ESQuery._scroll_size, set by __init__
    op,                 \* the last operation called, with its arguments
    calls,              \* the backend calls that operation issued, in order
    backend,            \* what the backend answered to the last of them
    ret                 \* what the operation gave back to its caller

vars == <<phase, n_shards, _total_scroll_size, _allowed_options, _scroll_size,
          op, calls, backend, ret>>

---------------------------------------------------------------------------
\* Bounds of the model.
MaxTotalScrollSize == 6
MaxShards == 3
MaxIds == 2
MaxSortEntries == 3
MaxScopesLen == 4
MaxScopesEntries == 3
MaxTokens == 3

---------------------------------------------------------------------------
\* Python values.

Return(type, val) == [kind |-> "return", type |-> type, val |-> val]
ReturnNone == [kind |-> "return", type |-> "NoneType"]
Raise(exc) == [kind |-> "raise", exc |-> exc]
NoResult == [kind |-> "none"]

\* dict.update: the keys of g win.
Update(f, g) ==
    [k \in DOMAIN f \cup DOMAIN g |-> IF k \in DOMAIN g THEN g[k] ELSE f[k]]

\* dict.setdefault: the key of f wins.
SetDefault(f, k, v) ==
    [j \in DOMAIN f \cup {k} |-> IF j \in DOMAIN f THEN f[j] ELSE v]

EmptyDict == [k \in {} |-> TRUE]

RECURSIVE Flatten(_)
Flatten(ss) == IF ss = <<>> THEN <<>> ELSE Head(ss) \o Flatten(Tail(ss))

---------------------------------------------------------------------------
\* Python str methods, on sequences of characters.

\* Without "\x0b", which TLA+ cannot write.
Whitespace == {" ", "\t", "\n", "\r", "\f"}

RECURSIVE LStrip(_, _)
LStrip(s, cs) ==
    IF s # <<>> /\ Head(s) \in cs THEN LStrip(Tail(s), cs) ELSE s

RECURSIVE RStrip(_, _)
RStrip(s, cs) ==
    IF s # <<>> /\ s[Len(s)] \in cs THEN RStrip(SubSeq(s, 1, Len(s) - 1), cs) ELSE s

Strip(s) == RStrip(LStrip(s, Whitespace), Whitespace)

\* str.find: the lowest 0-based index of v in s, or -1.
Find(s, v) ==
    LET at == {i \in 0..(Len(s) - Len(v)) : SubSeq(s, i + 1, i + Len(v)) = v}
    IN  IF at = {} THEN -1 ELSE CHOOSE i \in at : \A j \in at : i <= j

StartsWith(s, p) == Len(s) >= Len(p) /\ SubSeq(s, 1, Len(p)) = p
EndsWith(s, p) == Len(s) >= Len(p) /\ SubSeq(s, Len(s) - Len(p) + 1, Len(s)) = p

\* str.split(c) for a one-character separator c.
RECURSIVE Split(_, _)
Split(s, c) ==
    LET i == Find(s, <<c>>)
    IN  IF i = -1 THEN <<s>>
        ELSE <<SubSeq(s, 1, i)>> \o Split(SubSeq(s, i + 2, Len(s)), c)

\* c.join(ss)
RECURSIVE Join(_, _)
Join(ss, c) ==
    IF ss = <<>> THEN <<>>
    ELSE IF Len(ss) = 1 THEN ss[1]
    ELSE ss[1] \o <<c>> \o Join(Tail(ss), c)

LowerChar(c) ==
    CASE c = "G" -> "g" [] c = "O" -> "o" [] c = "A" -> "a" [] c = "N" -> "n"
      [] c = "D" -> "d" [] c = "R" -> "r" [] c = "T" -> "t" [] OTHER -> c

Lower(s) == [i \in 1..Len(s) |-> LowerChar(s[i])]

\* The sequences over S of length at most n.
SeqsUpTo(S, n) == UNION {[1..k -> S] : k \in 0..n}

---------------------------------------------------------------------------
\* The backend's data.

Ids == {"1017", "1018"}

HitA == [_id |-> "d1", _score |-> 1, _source |-> [symbol |-> "CDK2"]]
HitB == [_id |-> "d2", _score |-> 2, _source |-> [_id |-> "own", symbol |-> "CDK7"]]
HitC == [_id |-> "d3", _score |-> 3, fields |-> [symbol |-> "CDK9"]]

\* What es.get answers for a document it holds.
GetHits ==
    {[_id |-> "1017", _version |-> 1, found |-> TRUE, _source |-> [symbol |-> "CDK2"]],
     [_id |-> "1018", _version |-> 2, found |-> TRUE, _source |-> [symbol |-> "CDK3"]]}

\* The exceptions a backend call can raise.
BackendErrors == {"NotFoundError", "RequestError", "ConnectionError"}

---------------------------------------------------------------------------
\* The options of a call, as _get_cleaned_common_options leaves them; no
\* fields are requested in the calls modelled, so no dotfield composition.
Options(raw, rawquery, fetch_all) ==
    [raw |-> raw, rawquery |-> rawquery, fetch_all |-> fetch_all]

\* Lines 82-90.  jsonld is not set in the calls modelled, so
\* _traverse_biothingdoc adds no @context and only orders the keys, and
\* _modify_biothingdoc returns the doc as it is.
_get_biothingdoc(hit) ==
    LET src == IF "_source" \in DOMAIN hit THEN hit._source
               ELSE IF "fields" \in DOMAIN hit THEN hit.fields
               ELSE EmptyDict
        d1 == SetDefault(src, "_id", hit._id)
        d2 == IF "_score" \in DOMAIN hit THEN SetDefault(d1, "_score", hit._score) ELSE d1
        d3 == IF "_version" \in DOMAIN hit THEN SetDefault(d2, "_version", hit._version) ELSE d2
    IN  IF "found" \in DOMAIN hit /\ hit.found = FALSE
        THEN Update(d3, [found |-> FALSE])
        ELSE d3

---------------------------------------------------------------------------
\* ESQuery.__init__ and get_number_of_shards: the number of shards is read
\* for the test of line 59 and again for line 61 or for the message of line 64.

GetSettingsCall == [api |-> "indices.get_settings"]

\* Construct without the test of line 59: the division is always taken.
Construct_Unchecked ==
    /\ phase = "new"
    /\ op' = [name |-> "__init__"]
    /\ backend' = [kind |-> "response", res |-> n_shards]
    /\ _scroll_size' = _total_scroll_size \div n_shards
    /\ calls' = <<GetSettingsCall>>
    /\ phase' = "ready"
    /\ ret' = ReturnNone
    /\ UNCHANGED <<n_shards, _total_scroll_size, _allowed_options>>

Construct ==
    /\ phase = "new"
    /\ op' = [name |-> "__init__"]
    /\ backend' = [kind |-> "response", res |-> n_shards]
    /\ IF _total_scroll_size % n_shards = 0
       THEN /\ _scroll_size' = _total_scroll_size \div n_shards
            /\ calls' = <<GetSettingsCall, GetSettingsCall>>
            /\ phase' = "ready"
            /\ ret' = ReturnNone
       ELSE /\ _scroll_size' = _scroll_size
            /\ calls' = <<GetSettingsCall, GetSettingsCall>>
            /\ phase' = "failed"
            /\ ret' = Raise("ScrollSetupError")
    /\ UNCHANGED <<n_shards, _total_scroll_size, _allowed_options>>

---------------------------------------------------------------------------
\* The caller.  It can call a method only on an executor whose __init__
\* returned, and calls the next one after it has taken the result of the
\* last: the executor keeps nothing of a call once it has returned.

Idle == phase = "ready" /\ op.name = "idle"

Deliver ==
    /\ phase = "ready"
    /\ op.name # "idle"
    /\ op' = [name |-> "idle"]
    /\ calls' = <<>>
    /\ backend' = [kind |-> "none"]
    /\ ret' = NoResult
    /\ UNCHANGED <<phase, n_shards, _total_scroll_size, _allowed_options, _scroll_size>>

---------------------------------------------------------------------------
\* ESQuery.get_biothing

GetCall(bid) == [api |-> "get", id |-> bid]

\* What es.get can do for bid: answer the document it holds, or raise.
GetOutcomes(bid) ==
    {[kind |-> "response", res |-> hit] : hit \in {h \in GetHits : h._id = bid}}
    \cup {[kind |-> "raise", exc |-> e] : e \in BackendErrors}

\* Lines 261-270: what get_biothing gives back for the outcome b of es.get.
GetBiothingResult(b, raw) ==
    IF b.kind = "raise"
    THEN IF b.exc = "NotFoundError" THEN ReturnNone ELSE Raise(b.exc)
    ELSE IF raw THEN Return("dict", b.res)
    ELSE Return("dict", _get_biothingdoc(b.res))

get_biothing ==
    /\ Idle
    /\ \E bid \in Ids, raw \in BOOLEAN :
         /\ op' = [name |-> "get_biothing", bid |-> bid,
                   options |-> Options(raw, FALSE, FALSE)]
         /\ calls' = <<GetCall(bid)>>
         /\ \E b \in GetOutcomes(bid) :
                 /\ backend' = b
                 /\ ret' = GetBiothingResult(b, raw)
    /\ UNCHANGED <<phase, n_shards, _total_scroll_size, _allowed_options, _scroll_size>>

---------------------------------------------------------------------------
\* ESQuery.exists

\* Lines 251-255, on what get_biothing(bid, fields=None) gave back: an
\* exception of get_biothing passes through the try (NotFoundError gives
\* False), None['found'] raises TypeError, and doc['found'] raises KeyError
\* for a doc without that key.
ExistsResult(doc) ==
    IF doc.kind = "raise"
    THEN IF doc.exc = "NotFoundError" THEN Return("bool", FALSE) ELSE Raise(doc.exc)
    ELSE IF doc.type = "NoneType" THEN Raise("TypeError")
    ELSE IF "found" \in DOMAIN doc.val THEN Return("bool", doc.val.found)
    ELSE Raise("KeyError")

exists ==
    /\ Idle
    /\ \E bid \in Ids :
         /\ op' = [name |-> "exists", bid |-> bid]
         /\ calls' = <<GetCall(bid)>>
         /\ \E b \in GetOutcomes(bid) :
                 /\ backend' = b
                 /\ ret' = ExistsResult(GetBiothingResult(b, FALSE))
    /\ UNCHANGED <<phase, n_shards, _total_scroll_size, _allowed_options, _scroll_size>>

---------------------------------------------------------------------------
\* Python values whose type the code tests (is_str, is_seq, truth value).
PyNone == [t |-> "NoneType"]
PyStr(s) == [t |-> "str", s |-> s]
PyList(l) == [t |-> "list", v |-> l]
PyDict(d) == [t |-> "dict", d |-> d]
PyInt(n) == [t |-> "int", n |-> n]

Truthy(x) ==
    CASE x.t = "NoneType" -> FALSE
      [] x.t = "int" -> x.n # 0
      [] x.t = "dict" -> DOMAIN x.d # {}
      [] x.t = "str" -> Len(x.s) # 0
      [] OTHER -> Len(x.v) # 0

\* len(x) and ('key' in x) of a dict or a list whose elements are dicts.
PyLen(x) == IF x.t = "dict" THEN Cardinality(DOMAIN x.d) ELSE Len(x.v)
PyContains(x, key) == x.t = "dict" /\ key \in DOMAIN x.d

---------------------------------------------------------------------------
\* ESQuery._cleaned_scopes

_cleaned_scopes(scopes) ==
    IF Truthy(scopes)
    THEN LET parts == Split(scopes.s, ",")
             s1 == IF scopes.t = "str"
                   THEN PyList([i \in 1..Len(parts) |-> Strip(parts[i])])
                   ELSE scopes
         IN  IF s1.t = "list"
             THEN LET kept == SelectSeq(s1.v, LAMBDA x : x # <<>>)
                  IN  IF Len(kept) = 1 THEN PyStr(kept[1]) ELSE PyList(kept)
             ELSE PyNone
    ELSE PyNone

\* options.scopes as _get_cleaned_common_options sets it (None when not set).
OptionScopes(scopes) == IF Truthy(scopes) THEN _cleaned_scopes(scopes) ELSE PyNone

---------------------------------------------------------------------------
\* ESQueryBuilder.build_id_query and build_multiple_id_query; the builder's
\* stored query options are empty in the calls modelled.

DefaultScopes == <<"_", "i", "d">>

build_id_query(bid, scopes) ==
    LET sc == IF Truthy(scopes) THEN scopes ELSE PyStr(DefaultScopes)
    IN  CASE sc.t = "str" ->
               [query |-> [match |-> [field |-> sc.s, query |-> bid, operator |-> "and"]]]
          [] sc.t = "list" ->
               [query |-> [multi_match |-> [query |-> bid, fields |-> sc.v, operator |-> "and"]]]
          [] OTHER -> [raise |-> "ValueError"]

\* The lines that '\n'.join(_q) joins: a '{}' header and a body per id, and
\* the final '' that ends the text with a newline.
build_multiple_id_query(bid_list, scopes) ==
    Flatten([i \in 1..Len(bid_list) |->
                <<[line |-> "header"],
                  [line |-> "body", json |-> build_id_query(bid_list[i], scopes)]>>])
    \o <<[line |-> "end"]>>

---------------------------------------------------------------------------
\* ESQuery._cleaned_res

ErrorResult == [error |-> "SearchPhaseExecutionException"]
HitsResult(total, hits) == [took |-> 1, hits |-> [total |-> total, hits |-> hits]]

\* What msearch answers for one query of the batch.
RawResults ==
    {ErrorResult, HitsResult(0, <<>>), HitsResult(1, <<HitA>>),
     HitsResult(2, <<HitA, HitB>>), HitsResult(2, <<HitC, HitA>>),
     HitsResult(3, <<>>)}

_cleaned_res(res, empty, error, single_hit) ==
    IF "error" \in DOMAIN res THEN error
    ELSE LET hits == res.hits
         IN  IF hits.total = 0 THEN empty
             ELSE IF hits.total = 1 /\ single_hit
             THEN PyDict(_get_biothingdoc(hits.hits[1]))
             ELSE PyList([i \in 1..Len(hits.hits) |-> _get_biothingdoc(hits.hits[i])])

---------------------------------------------------------------------------
\* ESQuery.mget_biothings

\* What one position of the batch contributes (the body of the for loop).
MgetBlock(qterm, res) ==
    LET hits == _cleaned_res(res, PyList(<<>>), PyDict([error |-> TRUE]), FALSE)
    IN  IF PyLen(hits) = 0 THEN <<[query |-> qterm, notfound |-> TRUE]>>
        ELSE IF PyContains(hits, "error") THEN <<[query |-> qterm, error |-> TRUE]>>
        ELSE [j \in 1..Len(hits.v) |-> Update(hits.v[j], [query |-> qterm])]

\* MgetResult with every block tagged with the first id (qterm = bid_list[0]).
MgetResult_FirstId(bid_list, res) ==
    IF Len(res) # Len(bid_list) THEN Raise("AssertionError")
    ELSE Return("list", Flatten([i \in 1..Len(res) |-> MgetBlock(bid_list[1], res[i])]))

\* Lines 290-307: the assertion and the loop over the responses.
MgetResult(bid_list, res) ==
    IF Len(res) # Len(bid_list) THEN Raise("AssertionError")
    ELSE Return("list", Flatten([i \in 1..Len(res) |-> MgetBlock(bid_list[i], res[i])]))

MsearchCall(body) == [api |-> "msearch", body |-> body]

ScopeSymbol == <<"s", "y", "m">>
ScopeAlias == <<"a", "l">>
ScopeArgs ==
    {PyNone, PyStr(ScopeSymbol), PyList(<<ScopeSymbol, ScopeAlias>>), PyList(<< <<>> >>)}

mget_biothings ==
    /\ Idle
    /\ \E bid_list \in SeqsUpTo(Ids, MaxIds), raw \in BOOLEAN, rawquery \in BOOLEAN,
          scopes \in ScopeArgs :
         LET options == Options(raw, rawquery, FALSE) @@ [scopes |-> OptionScopes(scopes)]
             _q == build_multiple_id_query(bid_list, options.scopes)
         IN  /\ op' = [name |-> "mget_biothings", bid_list |-> bid_list,
                       options |-> options, _q |-> _q]
             /\ IF rawquery
                THEN /\ calls' = <<>>
                     /\ backend' = [kind |-> "none"]
                     /\ ret' = Return("str", _q)
                ELSE /\ calls' = <<MsearchCall(_q)>>
                     /\ \/ \E e \in BackendErrors :
                             /\ backend' = [kind |-> "raise", exc |-> e]
                             /\ ret' = Raise(e)
                        \/ \E res \in SeqsUpTo(RawResults, MaxIds) :
                             /\ backend' = [kind |-> "response", res |-> res]
                             /\ ret' = IF raw THEN Return("list", res)
                                       ELSE MgetResult(bid_list, res)
    /\ UNCHANGED <<phase, n_shards, _total_scroll_size, _allowed_options, _scroll_size>>

---------------------------------------------------------------------------
\* ESQuery._cleaned_res2

\* One facet of res["facets"]: the keys renamed, the counts summed.
RECURSIVE SumCounts(_)
SumCounts(buckets) ==
    IF buckets = <<>> THEN 0 ELSE Head(buckets).doc_count + SumCounts(Tail(buckets))

CleanedFacet(agg) ==
    [_type |-> "terms",
     terms |-> [i \in 1..Len(agg.buckets) |->
                   [count |-> agg.buckets[i].doc_count, term |-> agg.buckets[i].key]],
     other |-> agg.sum_other_doc_count,
     missing |-> agg.doc_count_error_upper_bound,
     total |-> SumCounts(agg.buckets)]

_cleaned_res2(res) ==
    LET facets == [f \in DOMAIN res.aggregations |-> CleanedFacet(res.aggregations[f])]
        r1 == IF "aggregations" \in DOMAIN res
              THEN Update([k \in DOMAIN res \ {"aggregations"} |-> res[k]],
                          [facets |-> facets])
              ELSE res
        copied == [k \in {"took", "facets", "_scroll_id"} \cap DOMAIN r1 |-> r1[k]]
        _res == Update(r1.hits, copied)
    IN  Update(_res, [hits |-> [i \in 1..Len(_res.hits) |-> _get_biothingdoc(_res.hits[i])]])

---------------------------------------------------------------------------
\* What es.search and es.scroll answer.

_scroll_time == "1m"

Aggregations ==
    [type |-> [buckets |-> <<[key |-> "A", doc_count |-> 5], [key |-> "B", doc_count |-> 3]>>,
               sum_other_doc_count |-> 2, doc_count_error_upper_bound |-> 0]]

HitLists == {<<>>, <<HitA>>, <<HitB, HitA>>, <<HitC>>}

\* A search response: with or without a cursor id, with or without aggregations.
SearchResponse(hits, failed, cursor, aggs) ==
    LET base == [took |-> 1, _shards |-> [failed |-> failed, total |-> n_shards],
                 hits |-> [total |-> Len(hits), hits |-> hits]]
        r1 == IF cursor THEN Update(base, [_scroll_id |-> "cursor2"]) ELSE base
    IN  IF aggs THEN Update(r1, [aggregations |-> Aggregations]) ELSE r1

SearchResponses ==
    {SearchResponse(h, 0, c, a) : h \in HitLists, c \in BOOLEAN, a \in BOOLEAN}

ScrollResponses ==
    {SearchResponse(h, f, c, FALSE) : h \in HitLists, f \in 0..n_shards, c \in BOOLEAN}

---------------------------------------------------------------------------
\* ESQuery.query

\* re.sub(u'[\t\n\x0b\x0c\r\x00]+', ' ', q): each run becomes one space.
ControlChars == {"\t", "\n", "\f", "\r"}

RECURSIVE SubControlRuns(_)
SubControlRuns(q) ==
    IF q = <<>> THEN <<>>
    ELSE IF Head(q) \in ControlChars
    THEN <<" ">> \o SubControlRuns(LStrip(q, ControlChars))
    ELSE <<Head(q)>> \o SubControlRuns(Tail(q))

\* parse_facets_option: None, or a terms aggregation per field of aggs.
parse_facets_option(aggs) ==
    IF Truthy(aggs)
    THEN LET fields == Split(aggs.s, ",")
         IN  PyDict([f \in {fields[i] : i \in 1..Len(fields)} |-> [terms |-> [field |-> f]]])
    ELSE PyNone

\* ESQueryBuilder.default_query
default_query(q) == [query |-> [query_string |-> [query |-> LStrip(q, {"*", "?"})]]]

\* The keyword arguments left in kwargs: those of the allowed options.
CleanedKwargs(kwargs) == [k \in DOMAIN kwargs \cap _allowed_options |-> kwargs[k]]

\* ScrollOptions with the size of the line commented out at 333.
ScrollOptions_PerShard(options) ==
    IF options.fetch_all
    THEN [size |-> _scroll_size, scroll |-> _scroll_time]
    ELSE EmptyDict

\* Lines 331-334.
ScrollOptions(options) ==
    IF options.fetch_all
    THEN [size |-> _total_scroll_size, scroll |-> _scroll_time]
    ELSE EmptyDict

\* ESQuery._search: the call it sends to the backend.
SearchCall(q, scroll_options, kwargs) ==
    [api |-> "search", body |-> q, kwargs |-> Update(kwargs, scroll_options)]

\* Lines 340-348: what query gives back when the search raised e.
QueryFailure(e, q) ==
    IF e = "RequestError"
    THEN Return("dict", [error |-> [text |-> "invalid query term: %s", arg |-> e],
                         success |-> FALSE])
    ELSE Return("dict", [success |-> FALSE,
                         error |-> [text |-> "Something is wrong with query '%s'", arg |-> q]])

\* Lines 353-355.
QueryResult(res, options) ==
    IF ~options.raw THEN Return("dict", _cleaned_res2(res)) ELSE Return("dict", res)

QInputs ==
    {<<"c", "d", "k", "2">>, <<"*", "?", "c", "d", "k">>, <<" ", "c", "\t", "\n", "d", " ">>}

AggsArgs == {PyNone, PyStr(<<"t", "y", "p", "e">>)}

KwargsArgs == {EmptyDict, [size |-> 7]}

query ==
    /\ Idle
    /\ \E q0 \in QInputs, raw \in BOOLEAN, rawquery \in BOOLEAN, fetch_all \in BOOLEAN,
          aggsArg \in AggsArgs, kwargs0 \in KwargsArgs :
         LET q == Strip(SubControlRuns(q0))
             aggs == parse_facets_option(aggsArg)
             options == Options(raw, rawquery, fetch_all)
             kwargs == CleanedKwargs(kwargs0)
             scroll_options == ScrollOptions(options)
             built == default_query(q)
             _query == IF Truthy(aggs) THEN Update(built, [aggs |-> aggs.d]) ELSE built
         IN  /\ op' = [name |-> "query", q |-> q0, options |-> options,
                       kwargs |-> kwargs, _query |-> _query]
             /\ calls' = <<SearchCall(_query, scroll_options, kwargs)>>
             /\ \/ \E e \in BackendErrors :
                     /\ backend' = [kind |-> "raise", exc |-> e]
                     /\ ret' = QueryFailure(e, q)
                \/ \E res \in SearchResponses :
                     /\ backend' = [kind |-> "response", res |-> res]
                     /\ ret' = QueryResult(res, options)
    /\ UNCHANGED <<phase, n_shards, _total_scroll_size, _allowed_options, _scroll_size>>

---------------------------------------------------------------------------
\* ESQuery.scroll

ScrollCall(scroll_id) == [api |-> "scroll", scroll_id |-> scroll_id, scroll |-> _scroll_time]

NoResults == [success |-> FALSE, error |-> "No results to return."]

ScrollWarning(r) ==
    [_warning |-> [text |-> "Scroll request has failed on {} shards out of {}.",
                   failed |-> r._shards.failed, total |-> r._shards.total]]

\* Lines 361-370.  With raw set nothing is bound to res, and the first use
\* of it (res.update or return res) raises UnboundLocalError.
ScrollResult(r, options) ==
    IF "_scroll_id" \notin DOMAIN r \/ r.hits.hits = <<>>
    THEN Return("dict", NoResults)
    ELSE IF options.raw THEN Raise("UnboundLocalError")
    ELSE LET res == _cleaned_res2(r)
         IN  IF r._shards.failed # 0
             THEN Return("dict", Update(res, ScrollWarning(r)))
             ELSE Return("dict", res)

ScrollIds == {"cursor1", "cursor2"}

scroll ==
    /\ Idle
    /\ \E scroll_id \in ScrollIds, raw \in BOOLEAN :
         LET options == Options(raw, FALSE, FALSE)
         IN  /\ op' = [name |-> "scroll", scroll_id |-> scroll_id, options |-> options]
             /\ calls' = <<ScrollCall(scroll_id)>>
             /\ \/ \E e \in BackendErrors :
                     /\ backend' = [kind |-> "raise", exc |-> e]
                     /\ ret' = Raise(e)
                \/ \E r \in ScrollResponses :
                     /\ backend' = [kind |-> "response", res |-> r]
                     /\ ret' = ScrollResult(r, options)
    /\ UNCHANGED <<phase, n_shards, _total_scroll_size, _allowed_options, _scroll_size>>

---------------------------------------------------------------------------
\* parse_sort_option, on the options dict: the value of 'sort' is None (also
\* for a missing key) or a str.

\* One field of the loop, lines 21-24: a dict of one key.
SortEntry(field) ==
    IF StartsWith(field, <<"-">>)
    THEN [k \in {SubSeq(field, 2, Len(field))} |-> "desc"]
    ELSE [k \in {field} |-> "asc"]

FieldName == <<"n", "a", "m", "e">>

\* Line 18: the fields the loop skips.
SortIgnored(field) ==
    field = FieldName \/ SubSeq(field, 2, Len(field)) = FieldName

parse_sort_option(options) ==
    LET sort == IF "sort" \in DOMAIN options THEN options.sort ELSE PyNone
        parts == Split(sort.s, ",")
        fields == [i \in 1..Len(parts) |-> Strip(parts[i])]
        kept == SelectSeq(fields, LAMBDA f : ~SortIgnored(f))
        _sort_array == [i \in 1..Len(kept) |-> SortEntry(kept[i])]
    IN  IF Truthy(sort)
        THEN Update(options, [sort |-> PyList(_sort_array)])
        ELSE options

SortFields ==
    {FieldName, <<"-">> \o FieldName, <<"x">> \o FieldName, <<"N", "a", "m", "e">>,
     <<"s", "c">>, <<" ", "-", "s", "c", " ">>, <<"-">> \o FieldName \o <<"2">>,
     <<"-">>, <<>>}

SortArgs ==
    {PyNone} \cup {PyStr(Join(fs, ",")) : fs \in SeqsUpTo(SortFields, MaxSortEntries)}

CallParseSortOption ==
    /\ op.name = "parse_sort_option" /\ ret = NoResult
    /\ ret' = Return("dict", parse_sort_option(op.options))
    /\ UNCHANGED <<phase, n_shards, _total_scroll_size, _allowed_options, _scroll_size,
                   op, calls, backend>>

\* The state of a specification of a function that uses no executor.
PureInit ==
    /\ phase = "pure"
    /\ n_shards = 1
    /\ _total_scroll_size = 1
    /\ _allowed_options = {}
    /\ _scroll_size = 1
    /\ calls = <<>>
    /\ backend = [kind |-> "none"]
    /\ ret = NoResult

SortInit ==
    /\ PureInit
    /\ \E sort \in SortArgs : op = [name |-> "parse_sort_option", options |-> [sort |-> sort]]

SortNext == CallParseSortOption

SortSpec == SortInit /\ [][SortNext]_vars

---------------------------------------------------------------------------
\* ESQuery._cleaned_scopes, called on None, a str, a list of str, or a value
\* that is neither.

ScopesChars == {"a", ",", " "}
ScopesEntries == {<<>>, <<"a">>, <<"b">>, <<" ">>}

ScopesArgs ==
    {PyNone, PyInt(0), PyInt(7)}
    \cup {PyStr(s) : s \in SeqsUpTo(ScopesChars, MaxScopesLen)}
    \cup {PyList(l) : l \in SeqsUpTo(ScopesEntries, MaxScopesEntries)}

CallCleanedScopes ==
    /\ op.name = "_cleaned_scopes" /\ ret = NoResult
    /\ ret' = Return(_cleaned_scopes(op.scopes).t, _cleaned_scopes(op.scopes))
    /\ UNCHANGED <<phase, n_shards, _total_scroll_size, _allowed_options, _scroll_size,
                   op, calls, backend>>

ScopesInit ==
    /\ PureInit
    /\ \E scopes \in ScopesArgs : op = [name |-> "_cleaned_scopes", scopes |-> scopes]

ScopesNext == CallCleanedScopes

ScopesSpec == ScopesInit /\ [][ScopesNext]_vars

---------------------------------------------------------------------------
\* ESQueryBuilder.generate_query

QAll == <<"_", "_", "a", "l", "l", "_", "_">>
Quote == "\""
Backslash == "\\"

_is_wildcard_query(q) ==
    Find(q, <<"*">>) # -1 \/ Find(q, <<"?">>) # -1

RawMarkers ==
    {<<":">>, <<"~">>, <<" ", "A", "N", "D", " ">>, <<" ", "O", "R", " ">>,
     <<"N", "O", "T", " ">>}

_is_raw_string_query(q) ==
    \/ \E v \in RawMarkers : Find(q, v) # -1
    \/ StartsWith(q, <<Quote>>) /\ EndsWith(q, <<Quote>>)

\* q.replace('"', '\\"')
RECURSIVE EscapeQuotes(_)
EscapeQuotes(q) ==
    IF q = <<>> THEN <<>>
    ELSE (IF Head(q) = Quote THEN <<Backslash, Quote>> ELSE <<Head(q)>>)
         \o EscapeQuotes(Tail(q))

\* json.loads of the text of a JSON string: the text decoded, or no value
\* where the text is no JSON string (a bare quote, a bad or unfinished
\* escape).  The letters b, f, n, r, t and u follow no backslash here.
RECURSIVE JsonString(_)
JsonString(s) ==
    IF s = <<>> THEN [ok |-> TRUE, v |-> <<>>]
    ELSE IF Head(s) = Quote THEN [ok |-> FALSE]
    ELSE IF Head(s) = Backslash
    THEN IF Len(s) >= 2 /\ s[2] \in {Quote, Backslash, "/"}
         THEN LET rest == JsonString(SubSeq(s, 3, Len(s)))
              IN  IF rest.ok THEN [ok |-> TRUE, v |-> <<s[2]>> \o rest.v] ELSE rest
         ELSE [ok |-> FALSE]
    ELSE LET rest == JsonString(Tail(s))
         IN  IF rest.ok THEN [ok |-> TRUE, v |-> <<Head(s)>> \o rest.v] ELSE rest

raw_string_query(q) ==
    LET loaded == JsonString(EscapeQuotes(q))
    IN  IF loaded.ok
        THEN Return("dict", [query_string |->
                                [query |-> loaded.v, default_operator |-> "AND",
                                 auto_generate_phrase_queries |-> TRUE]])
        ELSE Raise("QueryError")

\* raise NotImplemented(...): NotImplemented is not callable.
wildcard_query(q) == Raise("TypeError")
dis_max_query(q) == Raise("TypeError")

\* get_query_filters returns no filter, so the query is returned as it is.
add_query_filters(_query) == _query

\* Strategy with the wildcard test taken before the raw string test.
Strategy_WildcardFirst(q) ==
    IF q = QAll THEN "match_all"
    ELSE IF _is_wildcard_query(q) THEN "wildcard_query"
    ELSE IF _is_raw_string_query(q) /\ ~StartsWith(Lower(q), <<"g", "o", ":">>)
    THEN "raw_string_query"
    ELSE "dis_max_query"

\* Lines 472-482: the branch generate_query takes.
Strategy(q) ==
    IF q = QAll THEN "match_all"
    ELSE IF _is_raw_string_query(q) /\ ~StartsWith(Lower(q), <<"g", "o", ":">>)
    THEN "raw_string_query"
    ELSE IF _is_wildcard_query(q) THEN "wildcard_query"
    ELSE "dis_max_query"

generate_query(q) ==
    LET made == CASE Strategy(q) = "match_all" -> Return("dict", [match_all |-> EmptyDict])
                  [] Strategy(q) = "raw_string_query" -> raw_string_query(q)
                  [] Strategy(q) = "wildcard_query" -> wildcard_query(q)
                  [] OTHER -> dis_max_query(q)
    IN  IF made.kind = "return" THEN Return("dict", add_query_filters(made.val)) ELSE made

QTokens ==
    {QAll, <<":">>, <<"~">>, <<" ", "A", "N", "D", " ">>, <<" ", "O", "R", " ">>,
     <<"N", "O", "T", " ">>, <<"N", "O", "T">>, <<Quote>>, <<Backslash>>, <<"*">>, <<"?">>,
     <<"g", "o", ":">>, <<"G", "o">>, <<"x">>, <<" ">>}

QArgs == {Flatten(ts) : ts \in SeqsUpTo(QTokens, MaxTokens)}

\* calls holds the strategy method generate_query called, not a backend call.
CallGenerateQuery ==
    /\ op.name = "generate_query" /\ ret = NoResult
    /\ calls' = <<[method |-> Strategy(op.q)]>>
    /\ ret' = generate_query(op.q)
    /\ UNCHANGED <<phase, n_shards, _total_scroll_size, _allowed_options, _scroll_size,
                   op, backend>>

BuilderInit ==
    /\ PureInit
    /\ \E q \in QArgs : op = [name |-> "generate_query", q |-> q]

BuilderNext == CallGenerateQuery

BuilderSpec == BuilderInit /\ [][BuilderNext]_vars

---------------------------------------------------------------------------
Init ==
    /\ phase = "new"
    /\ n_shards \in 1..MaxShards
    /\ _total_scroll_size \in 1..MaxTotalScrollSize
    /\ _allowed_options \in {{}, {"size"}}
    /\ _scroll_size = 0
    /\ op = [name |-> "none"]
    /\ calls = <<>>
    /\ backend = [kind |-> "none"]
    /\ ret = NoResult

Next ==
    \/ Construct
    \/ Deliver
    \/ get_biothing
    \/ exists
    \/ mget_biothings
    \/ query
    \/ scroll

Spec == Init /\ [][Next]_vars

---------------------------------------------------------------------------
\* The four operations of the executor, and the backend calls that run a query.
FourOps == {"get_biothing", "mget_biothings", "query", "scroll"}
QueryApis == {"get", "msearch", "search", "scroll"}

Responded == op.name \in FourOps /\ backend.kind = "response"

\* C1.  The block position i of a batch contributes, as the claim gives it.
C1_Block(id, r) ==
    IF "error" \in DOMAIN r THEN <<[query |-> id, error |-> TRUE]>>
    ELSE IF r.hits.hits = <<>> THEN <<[query |-> id, notfound |-> TRUE]>>
    ELSE [j \in 1..Len(r.hits.hits) |->
             Update(_get_biothingdoc(r.hits.hits[j]), [query |-> id])]

C1_Case ==
    /\ op.name = "mget_biothings"
    /\ ~op.options.raw /\ ~op.options.rawquery
    /\ backend.kind = "response"
    /\ Len(backend.res) = Len(op.bid_list)

\* C1: mget_biothings without raw or rawquery, given one response per input
\* id, returns the concatenation in input order of one block per position:
\* {query, error} for an error response, {query, notfound} for a response
\* without hits, and otherwise the documents of the hits, in hit order, each
\* with query = the id of that position; every query value is an input id.
C1_MgetConcatenatesBlocks ==
    C1_Case =>
        /\ ret.kind = "return" /\ ret.type = "list"
        /\ ret.val = Flatten([i \in 1..Len(op.bid_list) |->
                                 C1_Block(op.bid_list[i], backend.res[i])])
        /\ \A k \in 1..Len(ret.val) :
              \E i \in 1..Len(op.bid_list) : ret.val[k].query = op.bid_list[i]

\* A batch of two different ids: two hits for the first, an error for the second.
C1_Witness ==
    /\ C1_Case
    /\ Len(op.bid_list) = 2 /\ op.bid_list[1] # op.bid_list[2]
    /\ "hits" \in DOMAIN backend.res[1] /\ Len(backend.res[1].hits.hits) = 2
    /\ "error" \in DOMAIN backend.res[2]
    /\ Len(ret.val) = 3

\* C2: with raw set, each of the four operations returns the response of the
\* backend as it is, and does not fail.  A scroll whose response has no
\* cursor id or no hits is left out: it returns the failure 'No results to
\* return.' with or without raw.
C2_RawReturnsBackendResponse ==
    (Responded /\ op.options.raw
        /\ ~(op.name = "scroll" /\ ("_scroll_id" \notin DOMAIN backend.res
                                      \/ backend.res.hits.hits = <<>>))) =>
        (ret.kind = "return" /\ ret.type # "NoneType" /\ ret.val = backend.res)

\* The same for the three operations other than scroll, which holds.
RawReturnsBackendResponseButScroll ==
    (Responded /\ op.options.raw /\ op.name # "scroll") =>
        (ret.kind = "return" /\ ret.type # "NoneType" /\ ret.val = backend.res)

\* C3: with rawquery set, mget_biothings and query return the query they
\* built and send no request to the backend.
C3_RawqueryIssuesNoCall ==
    (op.name \in {"mget_biothings", "query"} /\ op.options.rawquery) =>
        /\ calls = <<>>
        /\ ret.kind = "return"
        /\ ret.val = (IF op.name = "query" THEN op._query ELSE op._q)

\* The same for mget_biothings alone, which holds.
MgetRawqueryIssuesNoCall ==
    (op.name = "mget_biothings" /\ op.options.rawquery) =>
        (calls = <<>> /\ ret = Return("str", op._q))

StructuredFailure(r) ==
    /\ r.kind = "return" /\ r.type = "dict"
    /\ {"success", "error"} \subseteq DOMAIN r.val
    /\ r.val.success = FALSE

\* C4: whatever the backend call raises, each of the four operations returns
\* (a structured failure, or None for a get_biothing of an unknown id): no
\* exception reaches the caller.
C4_NoExceptionPropagates ==
    (op.name \in FourOps /\ backend.kind = "raise") =>
        \/ StructuredFailure(ret)
        \/ /\ op.name = "get_biothing" /\ backend.exc = "NotFoundError"
           /\ ret = ReturnNone

\* What holds of the handling of backend errors: query returns a structured
\* failure for every one, get_biothing returns None for NotFoundError.
BackendErrorsHandled ==
    (op.name \in FourOps /\ backend.kind = "raise") =>
        /\ op.name = "query" => StructuredFailure(ret)
        /\ (op.name = "get_biothing" /\ backend.exc = "NotFoundError") => ret = ReturnNone
        /\ (op.name \in {"mget_biothings", "scroll"}) => ret = Raise(backend.exc)

\* The keyword arguments of the search call of the last query.
SearchKwargs == calls[1].kwargs

\* C5 as amended: with fetch_all, query passes the configured total scroll
\* size as the page size, and the scroll time; without it, it passes the
\* caller's allowed keyword arguments and nothing else.
C5_FetchAllPassesTotalScrollSize ==
    op.name = "query" =>
        /\ Len(calls) = 1 /\ calls[1].api = "search"
        /\ op.options.fetch_all =>
              /\ SearchKwargs.size = _total_scroll_size
              /\ SearchKwargs.scroll = _scroll_time
        /\ ~op.options.fetch_all => SearchKwargs = op.kwargs

\* C5 as claimed: with fetch_all, the page size is the shard-balanced size
\* computed at construction; without it, no size and no scroll are added.
C5_FetchAllPassesShardBalancedSize ==
    op.name = "query" =>
        /\ op.options.fetch_all =>
              /\ SearchKwargs.size = _scroll_size
              /\ _scroll_size = _total_scroll_size \div n_shards
              /\ SearchKwargs.scroll = _scroll_time
        /\ ~op.options.fetch_all => SearchKwargs = op.kwargs

\* A fetch_all query on an index of several shards, the caller's own size
\* among the allowed keyword arguments.
C5_Witness ==
    /\ op.name = "query" /\ op.options.fetch_all
    /\ n_shards > 1
    /\ "size" \in DOMAIN op.kwargs /\ op.kwargs.size # _total_scroll_size
    /\ backend.kind = "response"

\* C6: __init__ returns, with _scroll_size * shards = _total_scroll_size,
\* exactly when the number of shards divides _total_scroll_size; otherwise it
\* raises ScrollSetupError, and then no get, msearch, search or scroll call is
\* issued.  In phase "failed" no operation runs, so calls holds every
\* backend call of the process.
C6_ConstructionIffDivisible ==
    /\ phase = "ready" =>
          /\ _total_scroll_size % n_shards = 0
          /\ _scroll_size * n_shards = _total_scroll_size
    /\ phase = "failed" =>
          /\ _total_scroll_size % n_shards # 0
          /\ ret = Raise("ScrollSetupError")
          /\ \A i \in 1..Len(calls) : calls[i].api \notin QueryApis
    /\ op.name \in FourOps => phase = "ready"

\* Construction has failed: 4 hits per batch over 3 shards.
C6_Witness ==
    /\ phase = "failed" /\ _total_scroll_size = 4 /\ n_shards = 3
    /\ ret = Raise("ScrollSetupError")

\* Construction has succeeded: 6 hits per batch over 3 shards, 2 per shard.
C6_WitnessReady ==
    phase = "ready" /\ _total_scroll_size = 6 /\ n_shards = 3 /\ _scroll_size = 2

ScrollEmpty(r) == "_scroll_id" \notin DOMAIN r \/ r.hits.hits = <<>>

\* What the claim says scroll returns for a response r with a cursor and hits.
C7_Normalized(r, v) ==
    /\ v.hits = [i \in 1..Len(r.hits.hits) |-> _get_biothingdoc(r.hits.hits[i])]
    /\ v._scroll_id = r._scroll_id
    /\ "_warning" \in DOMAIN v <=> r._shards.failed # 0
    /\ "_warning" \in DOMAIN v =>
          (v._warning.failed = r._shards.failed /\ v._warning.total = r._shards.total)

\* C7: scroll passes the cursor id and the scroll time to the backend; it
\* returns the failure 'No results to return.' exactly when the response has
\* no cursor id or no hits; otherwise it returns the response normalized as a
\* search response, with a _warning exactly when shards failed.
C7_ScrollNormalizes ==
    (op.name = "scroll" /\ backend.kind = "response") =>
        /\ calls = <<[api |-> "scroll", scroll_id |-> op.scroll_id, scroll |-> _scroll_time]>>
        /\ ret = Return("dict", NoResults) <=> ScrollEmpty(backend.res)
        /\ ~ScrollEmpty(backend.res) =>
              (ret.kind = "return" /\ C7_Normalized(backend.res, ret.val))

\* The same for the calls without raw, which holds.
ScrollNormalizesWithoutRaw ==
    (op.name = "scroll" /\ backend.kind = "response" /\ ~op.options.raw) =>
        /\ calls = <<[api |-> "scroll", scroll_id |-> op.scroll_id, scroll |-> _scroll_time]>>
        /\ ret = Return("dict", NoResults) <=> ScrollEmpty(backend.res)
        /\ ~ScrollEmpty(backend.res) =>
              (ret.kind = "return" /\ C7_Normalized(backend.res, ret.val))

\* C8: the strategy the claim assigns to a query string.
Contains(q, v) == \E i \in 1..(Len(q) - Len(v) + 1) : SubSeq(q, i, i + Len(v) - 1) = v

C8_RawTest(q) ==
    \/ Contains(q, <<":">>) \/ Contains(q, <<"~">>)
    \/ Contains(q, <<" ", "A", "N", "D", " ">>) \/ Contains(q, <<" ", "O", "R", " ">>)
    \/ Contains(q, <<"N", "O", "T", " ">>)
    \/ (Len(q) >= 1 /\ q[1] = Quote /\ q[Len(q)] = Quote)

C8_GoPrefixed(q) ==
    Len(q) >= 3 /\ q[1] \in {"g", "G"} /\ q[2] \in {"o", "O"} /\ q[3] = ":"

C8_WildcardTest(q) == Contains(q, <<"*">>) \/ Contains(q, <<"?">>)

C8_Expected(q) ==
    IF q = QAll THEN "match_all"
    ELSE IF C8_RawTest(q) /\ ~C8_GoPrefixed(q) THEN "raw_string_query"
    ELSE IF C8_WildcardTest(q) THEN "wildcard_query"
    ELSE "dis_max_query"

C8_Called == op.name = "generate_query" /\ ret # NoResult

\* C8: generate_query takes exactly one strategy for a query string: match
\* all for '__all__'; else raw string when the string has ':', '~', ' AND ',
\* ' OR ' or 'NOT ' or is wrapped in double quotes, and does not start with
\* 'go:' in any case; else wildcard when it has '*' or '?'; else dis max.  A
\* string passing the raw and the wildcard test is raw; a 'go:' string never.
C8_StrategyPrecedence ==
    C8_Called =>
        /\ calls = <<[method |-> C8_Expected(op.q)]>>
        /\ (C8_RawTest(op.q) /\ C8_WildcardTest(op.q) /\ ~C8_GoPrefixed(op.q)
               /\ op.q # QAll) => calls[1].method = "raw_string_query"
        /\ C8_GoPrefixed(op.q) => calls[1].method # "raw_string_query"
        /\ calls[1].method = "match_all" <=> ret = Return("dict", [match_all |-> EmptyDict])

\* 'x:?' passes the raw and the wildcard test and was built as a raw string query.
C8_Witness ==
    /\ C8_Called
    /\ op.q = <<"x", ":", "?">>
    /\ calls = <<[method |-> "raw_string_query"]>>
    /\ ret.kind = "return"

\* C9: what the claim says _cleaned_scopes returns for a str or a list.
C9_Entries(scopes) ==
    IF scopes.t = "str"
    THEN LET parts == Split(scopes.s, ",") IN [i \in 1..Len(parts) |-> Strip(parts[i])]
    ELSE scopes.v

C9_Expected(scopes) ==
    LET kept == SelectSeq(C9_Entries(scopes), LAMBDA x : x # <<>>)
    IN  IF Len(kept) = 0 THEN PyNone
        ELSE IF Len(kept) = 1 THEN PyStr(kept[1])
        ELSE PyList(kept)

C9_Called == op.name = "_cleaned_scopes" /\ ret # NoResult /\ op.scopes.t \in {"str", "list"}

\* C9: for a str or list input, _cleaned_scopes removes the empty entries and
\* returns the one left as a str, the two or more left as a list in input
\* order, and None when none is left: never an empty list.
C9_ScopesNoneWhenNothingLeft ==
    C9_Called =>
        /\ ret.val = C9_Expected(op.scopes)
        /\ ret.val # PyList(<<>>)

\* What holds: the same, but an empty list for a non-empty input of which no
\* entry is left.
ScopesEmptyListWhenNothingLeft ==
    C9_Called =>
        ret.val = (IF C9_Expected(op.scopes) = PyNone /\ Truthy(op.scopes)
                   THEN PyList(<<>>)
                   ELSE C9_Expected(op.scopes))

\* C10: what the claim says parse_sort_option makes of a sort string.
C10_Entry(field) ==
    IF field # <<>> /\ field[1] = "-"
    THEN [k \in {Tail(field)} |-> "desc"]
    ELSE [k \in {field} |-> "asc"]

C10_Expected(sort) ==
    LET parts == Split(sort, ",")
        fields == [i \in 1..Len(parts) |-> Strip(parts[i])]
        kept == SelectSeq(fields, LAMBDA f : f \notin {FieldName, <<"-">> \o FieldName})
    IN  [i \in 1..Len(kept) |-> C10_Entry(kept[i])]

C10_Called ==
    /\ op.name = "parse_sort_option" /\ ret # NoResult
    /\ op.options.sort.t = "str" /\ op.options.sort.s # <<>>

\* C10: for a sort string, parse_sort_option gives the list in input order of
\* {field: 'desc'} for each trimmed entry '-field' and {field: 'asc'} for
\* each other, leaving out exactly the entries 'name' and '-name'.
C10_SortDropsOnlyName ==
    C10_Called => ret.val.sort = PyList(C10_Expected(op.options.sort.s))

\* What holds: the entries left out are those that are 'name' after their
\* first character is dropped, and 'name' itself.
SortDropsAnyCharThenName ==
    C10_Called =>
        LET parts == Split(op.options.sort.s, ",")
            fields == [i \in 1..Len(parts) |-> Strip(parts[i])]
            kept == SelectSeq(fields,
                        LAMBDA f : ~(f = FieldName \/ (Len(f) = 5 /\ Tail(f) = FieldName)))
        IN  ret.val.sort = PyList([i \in 1..Len(kept) |-> C10_Entry(kept[i])])

\* The backend holds the document of the id asked for, or does not.
C11_Holds == backend.kind = "response"
C11_HoldsNot == backend.kind = "raise" /\ backend.exc = "NotFoundError"

\* C11: exists(bid) returns True when the backend holds a document with the
\* id bid and False when it does not: it returns a boolean and does not raise.
C11_ExistsReturnsBoolean ==
    (op.name = "exists" /\ (C11_Holds \/ C11_HoldsNot)) =>
        /\ ret.kind = "return" /\ ret.type = "bool"
        /\ ret.val = C11_Holds

\* What holds: exists returns nothing; it raises KeyError for a document the
\* backend holds, TypeError for one it does not, and the backend's exception
\* otherwise.
ExistsRaises ==
    op.name = "exists" =>
        ret = Raise(IF C11_Holds THEN "KeyError"
                    ELSE IF C11_HoldsNot THEN "TypeError"
                    ELSE backend.exc)

===========================================================================
